---- MODULE Spec2Model ----
(***************************************************************************)
(* Model of the ETF data cache and acquisition layer.                      *)
(*                                                                         *)
(* Two implementations live in the repository and both are modelled:       *)
(*   - data_fix.py : load_from_cache / save_to_cache / get_etf_data        *)
(*   - crawler.py  : load_from_cache / save_to_cache / get_etf_data        *)
(* The variable `cache` is the file at get_cache_path(etf_code, data_type) *)
(* of the implementation whose specification is being checked.             *)
(*                                                                         *)
(* Further parts, each with a specification of its own:                    *)
(*   - data_fix.py : check_data_completeness   (SpecChecked)               *)
(*   - data_fix.py : crawl_etf_data            (SpecBatch, `batch`)        *)
(*   - scoring.py  : generate_stock_pool       (SpecPool, `pool`)          *)
(*                                                                         *)
(* A date is a day number.  Row dates are midnights; the wall clock is     *)
(* some instant strictly inside the day Today.                             *)
(***************************************************************************)
EXTENDS Integers, Sequences, FiniteSets, TLC

VARIABLES
    data_type,  \* 'daily' or 'intraday' : the kind of the series
    cache,      \* the file at cache_path
    temp,       \* the file at cache_path + '.tmp'
    pc,         \* position of the writer inside save_to_cache / get_etf_data
    op,         \* which entry point the writer is running: "save", "get", "none"
    data,       \* the DataFrame handed to save_to_cache
    ret,        \* what save_to_cache returned / how it ended
    pre,        \* the cache file when the running save_to_cache was entered
    merged,     \* the file content the running save_to_cache decided to persist
    repeat,     \* the running save_to_cache repeats the previous successful call
    ncalls,     \* entry-point calls made so far
    obs,        \* what a concurrent load_from_cache saw of the file
    get,        \* bookkeeping of the running get_etf_data call
    batch,      \* a run of crawl_etf_data: its inputs and how it ended
    pool,       \* a run of generate_stock_pool: the score records and the pool
    score,      \* a call of calculate_ETF_score: what it reads and what it gives
    arbitrage,  \* the arbitrage status file and the cron run that last touched it
    retry       \* a call of akshare_retry: the attempts made and the waits slept

vars == <<data_type, cache, temp, pc, op, data, ret, pre, merged, repeat, ncalls, obs, get,
          batch, pool, score, arbitrage, retry>>

----------------------------------------------------------------------------
(* Bounds of the model *)

Today == 1000
MaxRows == 2
MaxInitRows == 2
MaxCalls == 2

(* Program constants *)

CacheDays == 365
CrawlerCacheDays == 30
BaostockDays == 100
MinRecords == 5

(* Dates that matter: one older than every window, two days ago (stale),
   yesterday (fresh), today. *)
DateSet == {Today - 400, Today - 2, Today - 1, Today}
Vals == {1, 2}

----------------------------------------------------------------------------
(* DataFrames and files *)

\* A row on disk: the date is text, v stands for the OHLCV payload.
FileRows == [date : DateSet, v : Vals]

\* A row in memory: rep tells whether the date cell is a str or a Timestamp.
MemRow(r, rep) == [date |-> r.date, v |-> r.v, rep |-> rep]

SeqsUpTo(S, n) == UNION {[1..k -> S] : k \in 0..n}

Absent == [st |-> "absent", rows |-> <<>>]
Corrupt == [st |-> "corrupt", rows |-> <<>>]
Partial == [st |-> "partial", rows |-> <<>>]
File(rows) == [st |-> "ok", rows |-> rows]

exists(f) == f.st # "absent"

None == [none |-> TRUE, rows |-> <<>>]
Frame(rows) == [none |-> FALSE, rows |-> rows]
empty(df) == df.rows = <<>>

\* DataFrame.to_csv: every date cell is written as text, whatever it was.
to_csv(rows) == [i \in DOMAIN rows |-> [date |-> rows[i].date, v |-> rows[i].v]]

\* pd.read_csv: the date column comes back as str.
read_csv(f) == [i \in DOMAIN f.rows |-> MemRow(f.rows[i], "str")]

\* pd.to_datetime on the date column.
to_datetime(rows) == [i \in DOMAIN rows |-> [rows[i] EXCEPT !.rep = "ts"]]

\* df[df['date'] >= now - timedelta(days)] with now inside the day Today:
\* a midnight d is kept iff d > Today - days.
InWindow(d, days) == d + days > Today

FilterWindow(rows, days) ==
    LET keep(r) == InWindow(r.date, days) IN SelectSeq(rows, keep)

\* The cell compared by drop_duplicates / sort_values: a str and a Timestamp
\* of the same day are different objects.
Key(r) == <<r.rep, r.date>>

RECURSIVE drop_duplicates(_)
\* drop_duplicates(subset=['date'], keep='last')
drop_duplicates(rows) ==
    IF rows = <<>> THEN <<>>
    ELSE IF \E j \in 2..Len(rows) : Key(rows[j]) = Key(rows[1])
         THEN drop_duplicates(Tail(rows))
         ELSE <<Head(rows)>> \o drop_duplicates(Tail(rows))

MixedRep(rows) == \E i, j \in DOMAIN rows : rows[i].rep # rows[j].rep

RemoveAt(s, i) == SubSeq(s, 1, i - 1) \o SubSeq(s, i + 1, Len(s))

RECURSIVE sort_values(_)
\* sort_values('date') : the possible results.  The default sort kind gives
\* no order among rows of equal date, so every tie order is a result.
sort_values(rows) ==
    IF rows = <<>> THEN {<<>>}
    ELSE LET firsts == {i \in DOMAIN rows :
                          \A j \in DOMAIN rows : rows[i].date <= rows[j].date}
         IN UNION {{<<rows[i]>> \o s : s \in sort_values(RemoveAt(rows, i))}
                    : i \in firsts}

Dates(rows) == {rows[i].date : i \in DOMAIN rows}
StrictlyIncreasing(rows) ==
    \A i \in DOMAIN rows : \A j \in DOMAIN rows : i < j => rows[i].date < rows[j].date
MaxDate(rows) == CHOOSE d \in Dates(rows) : \A e \in Dates(rows) : e <= d

----------------------------------------------------------------------------
(* data_fix.py : load_from_cache *)

load_from_cache(f, kind, days) ==
    IF ~exists(f) THEN None
    ELSE IF f.st # "ok" THEN None
    ELSE LET df == to_datetime(read_csv(f))
         IN Frame(IF kind = "daily" THEN FilterWindow(df, days) ELSE df)

----------------------------------------------------------------------------
(* data_fix.py : save_to_cache, one action per file-system step *)

NoObs == [seen |-> FALSE, during |-> FALSE, file |-> Absent, pre |-> Absent,
          merged |-> Absent]
NoGet == [cached |-> None, since |-> 0, calls |-> <<>>, df |-> None,
          resolved |-> FALSE, returned |-> FALSE]

\* the frames callers hand over: Timestamp dates, any order, any repetition;
\* fresh rows carry the payload 2, the rows of the first files the payload 1
NewRows == {[i \in DOMAIN s |-> MemRow(s[i], "ts")] :
              s \in SeqsUpTo([date : DateSet, v : {2}], MaxRows)}

\* entry: `if data is None or data.empty: return False`
EnterSave(rows) ==
    /\ data' = rows
    /\ pre' = cache
    /\ merged' = cache
    /\ obs' = NoObs
    /\ IF rows = <<>>
       THEN /\ pc' = "done"
            /\ ret' = "False"
       ELSE /\ pc' = "write_temp"
            /\ ret' = "running"

save_to_cache_call ==
    /\ pc = "idle"
    /\ ncalls < MaxCalls
    /\ \E rows \in NewRows :
          /\ EnterSave(rows)
          /\ repeat' = (ret = "True" /\ rows = data)
    /\ ncalls' = ncalls + 1
    /\ op' = "save"
    /\ get' = NoGet
    /\ UNCHANGED <<batch, pool, score, arbitrage, retry, data_type, cache, temp>>

\* step 1: data.to_csv(temp_path)
save_write_temp ==
    /\ pc = "write_temp"
    /\ \/ /\ temp' = File(to_csv(data))
          /\ pc' = "merge"
       \/ /\ temp' \in {temp, Partial}
          /\ pc' = "except"
    /\ UNCHANGED <<batch, pool, score, arbitrage, retry, data_type, cache, op, data, ret, pre, merged, repeat, ncalls, obs, get>>

\* an exception ends the try body
Raised == [st |-> "raise", rows |-> <<>>]

\* what step 2 writes to the temp file, or Raised
MergeResults(f, kind, rows) ==
    IF exists(f)
    THEN LET existing_data == load_from_cache(f, kind, CacheDays)
         IN IF ~existing_data.none /\ ~empty(existing_data)
            THEN LET combined == drop_duplicates(existing_data.rows \o rows)
                 IN IF MixedRep(combined)
                    THEN {Raised}
                    ELSE {File(to_csv(s)) : s \in sort_values(combined)}
            ELSE {File(to_csv(rows))}
    ELSE {File(to_csv(rows))}

\* step 2: merge with the existing file and rewrite the temp file
save_merge ==
    /\ pc = "merge"
    /\ \/ \E m \in MergeResults(cache, data_type, data) :
             IF m = Raised
             THEN /\ pc' = "except"
                  /\ UNCHANGED <<temp, merged>>
             ELSE /\ temp' = m
                  /\ merged' = m
                  /\ pc' = "remove"
       \/ /\ temp' \in {temp, Partial}
          /\ pc' = "except"
          /\ UNCHANGED merged
    /\ UNCHANGED <<batch, pool, score, arbitrage, retry, data_type, cache, op, data, ret, pre, repeat, ncalls, obs, get>>

\* step 3a: `if os.path.exists(cache_path): os.remove(cache_path)`
save_remove ==
    /\ pc = "remove"
    /\ \/ /\ cache' = Absent
          /\ pc' = "rename"
       \/ /\ exists(cache)
          /\ pc' = "except"
          /\ UNCHANGED cache
    /\ UNCHANGED <<batch, pool, score, arbitrage, retry, data_type, temp, op, data, ret, pre, merged, repeat, ncalls, obs, get>>

\* step 3b: os.rename(temp_path, cache_path)
save_rename ==
    /\ pc = "rename"
    /\ \/ /\ cache' = temp
          /\ temp' = Absent
          /\ pc' = "verify"
       \/ /\ pc' = "except"
          /\ UNCHANGED <<cache, temp>>
    /\ UNCHANGED <<batch, pool, score, arbitrage, retry, data_type, op, data, ret, pre, merged, repeat, ncalls, obs, get>>

\* steps 4 and 5: the file exists and pd.read_csv reads it back
save_verify ==
    /\ pc = "verify"
    /\ \/ /\ exists(cache)
          /\ pc' = "done"
          /\ ret' = "True"
       \/ /\ pc' = "except"
          /\ UNCHANGED ret
    /\ UNCHANGED <<batch, pool, score, arbitrage, retry, data_type, cache, temp, op, data, pre, merged, repeat, ncalls, obs, get>>

\* except Exception: remove the temp file when it exists, return False
save_except ==
    /\ pc = "except"
    /\ temp' \in (IF exists(temp) THEN {Absent, temp} ELSE {temp})
    /\ pc' = "done"
    /\ ret' = "False"
    /\ UNCHANGED <<batch, pool, score, arbitrage, retry, data_type, cache, op, data, pre, merged, repeat, ncalls, obs, get>>

\* save_to_cache called on its own has returned to its caller
save_return ==
    /\ pc = "done"
    /\ op = "save"
    /\ pc' = "idle"
    /\ op' = "none"
    /\ pre' = Absent
    /\ merged' = Absent
    /\ obs' = NoObs
    /\ UNCHANGED <<batch, pool, score, arbitrage, retry, data_type, cache, temp, data, ret, repeat, ncalls, get>>

\* another thread calls load_from_cache for the same (symbol, kind)
concurrent_load ==
    /\ pc \notin {"idle", "done"}
    /\ obs' = [seen |-> TRUE, during |-> TRUE, file |-> cache, pre |-> pre,
               merged |-> merged]
    /\ UNCHANGED <<batch, pool, score, arbitrage, retry, data_type, cache, temp, pc, op, data, ret, pre, merged, repeat, ncalls, get>>

----------------------------------------------------------------------------
(* What a vendor answers *)

ProviderRows == NewRows \ {<<>>}

\* kind: the call raised, the answer was empty, the dates of the answer do
\* not parse, or the answer holds rows
Responses ==
    {[kind |-> k, rows |-> <<>>] : k \in {"raise", "empty", "baddate"}}
       \cup {[kind |-> "rows", rows |-> r] : r \in ProviderRows}

\* Baostock answers with the rows between start_date and end_date
query_history_k_data_plus(rows, start_date, end_date) ==
    LET inrange(r) == start_date <= r.date /\ r.date <= end_date
    IN SelectSeq(rows, inrange)

\* df[df['date'] >= start_date_dt]
FilterSince(rows, start_date) ==
    LET keep(r) == r.date >= start_date IN SelectSeq(rows, keep)

----------------------------------------------------------------------------
(* data_fix.py : get_etf_data *)

\* start_date = None
NoDate == 0

\* cached_data = load_from_cache(...); start_date = last_date + 1 day
get_etf_data_call ==
    /\ pc = "idle"
    /\ ncalls < MaxCalls
    /\ ncalls' = ncalls + 1
    /\ op' = "get"
    /\ pc' = "akshare"
    /\ LET cached_data == load_from_cache(cache, data_type, CacheDays)
       IN get' = [NoGet EXCEPT
                    !.cached = cached_data,
                    !.since = IF ~cached_data.none /\ ~empty(cached_data)
                              THEN MaxDate(cached_data.rows) + 1
                              ELSE NoDate]
    /\ ret' = "none"
    /\ UNCHANGED <<batch, pool, score, arbitrage, retry, data_type, cache, temp, data, pre, merged, repeat, obs>>

\* check_data_completeness: the frames of the model carry every required
\* column, so what is left is `df is None or df.empty` and the record count
check_data_completeness(df, min_records) ==
    df # <<>> /\ Len(df) >= min_records

\* a missing cell (NaN) of the payload
NaN == 0

RECURSIVE ffill(_, _)
\* fillna(method='ffill'): a missing cell takes the last value above it
ffill(rows, last) ==
    IF rows = <<>> THEN <<>>
    ELSE LET r == Head(rows)
             v == IF r.v = NaN THEN last ELSE r.v
         IN <<[r EXCEPT !.v = v]>> \o ffill(Tail(rows), v)

Reverse(s) == [i \in DOMAIN s |-> s[Len(s) + 1 - i]]

\* fillna(method='bfill'): a missing cell takes the next value below it
bfill(rows) == Reverse(ffill(Reverse(rows), NaN))

\* the frame df after check_data_completeness(df): when the columns and the
\* record count pass, the missing cells are filled in place, forward then
\* backward
fillna(df, min_records) ==
    IF check_data_completeness(df, min_records)
    THEN bfill(ffill(df, NaN))
    ELSE df

\* `save_to_cache(etf_code, df, data_type); return df`
SaveAndReturn(df, called) ==
    /\ EnterSave(df)
    /\ get' = [get EXCEPT !.calls = get.calls \o called, !.df = Frame(df),
                          !.resolved = TRUE]

\* complete or not, the frame is saved and returned
\* ("即使数据不完整也保存")
CheckSaveReturn(df, called) ==
    IF check_data_completeness(df, MinRecords)
    THEN SaveAndReturn(fillna(df, MinRecords), called)
    ELSE SaveAndReturn(df, called)

ReturnEmpty(called) ==
    /\ pc' = "done"
    /\ get' = [get EXCEPT !.calls = get.calls \o called, !.df = Frame(<<>>)]
    /\ UNCHANGED <<data, ret, pre, merged, obs>>

\* `return None`
ReturnNone(called) ==
    /\ pc' = "done"
    /\ get' = [get EXCEPT !.calls = get.calls \o called]
    /\ UNCHANGED <<data, ret, pre, merged, obs>>

\* the try block failed or found nothing: on to the next source
NextSource(called, next) ==
    /\ pc' = next
    /\ get' = [get EXCEPT !.calls = get.calls \o called]
    /\ UNCHANGED <<data, ret, pre, merged, obs>>

\* AkShare: fund_etf_hist_em, fund_etf_hist_sina when that is empty
get_akshare ==
    /\ pc = "akshare"
    /\ \E em \in Responses, fb \in Responses :
          LET called == IF em.kind = "empty"
                        THEN <<"fund_etf_hist_em", "fund_etf_hist_sina">>
                        ELSE <<"fund_etf_hist_em">>
              r == IF em.kind = "empty" THEN fb ELSE em
          IN CASE r.kind \in {"raise", "empty"} -> NextSource(called, "baostock")
               [] r.kind = "baddate" -> ReturnNone(called)
               [] r.kind = "rows" ->
                    LET df == IF get.since # NoDate
                              THEN FilterSince(r.rows, get.since)
                              ELSE r.rows
                    IN \E sorted \in sort_values(df) : CheckSaveReturn(sorted, called)
    /\ UNCHANGED <<batch, pool, score, arbitrage, retry, data_type, cache, temp, op, repeat, ncalls>>

\* Baostock: asked for start_date .. now, or for the last 100 days
get_baostock ==
    /\ pc = "baostock"
    /\ \E r \in Responses :
          LET called == <<"baostock">>
              start_date == IF get.since # NoDate THEN get.since
                            ELSE Today - BaostockDays
              df == query_history_k_data_plus(r.rows, start_date, Today)
          IN CASE r.kind \in {"raise", "baddate"} -> NextSource(called, "sina")
               [] r.kind = "empty" \/ (r.kind = "rows" /\ df = <<>>) ->
                    NextSource(called, "sina")
               [] r.kind = "rows" /\ df # <<>> ->
                    \E sorted \in sort_values(df) : CheckSaveReturn(sorted, called)
    /\ UNCHANGED <<batch, pool, score, arbitrage, retry, data_type, cache, temp, op, repeat, ncalls>>

\* Sina: the last 100 bars, whatever start_date is
get_sina ==
    /\ pc = "sina"
    /\ \E r \in Responses :
          LET called == <<"sina">>
          IN CASE r.kind \in {"raise", "empty", "baddate"} -> ReturnNone(called)
               [] r.kind = "rows" ->
                    \E sorted \in sort_values(r.rows) : CheckSaveReturn(sorted, called)
    /\ UNCHANGED <<batch, pool, score, arbitrage, retry, data_type, cache, temp, op, repeat, ncalls>>

\* get_etf_data hands df (or None) to its caller
get_return ==
    /\ pc = "done"
    /\ op = "get"
    /\ pc' = "idle"
    /\ op' = "none"
    /\ pre' = Absent
    /\ merged' = Absent
    /\ obs' = NoObs
    /\ get' = [get EXCEPT !.returned = TRUE]
    /\ UNCHANGED <<batch, pool, score, arbitrage, retry, data_type, cache, temp, data, ret, repeat, ncalls>>

----------------------------------------------------------------------------
(* crawler.py : load_from_cache, save_to_cache, get_etf_data *)

\* any exception is logged and None returned
crawler_load_from_cache(f, kind, days) ==
    IF exists(f) /\ f.st = "ok"
    THEN LET df == to_datetime(read_csv(f))
         IN Frame(IF kind = "daily" THEN FilterWindow(df, days) ELSE df)
    ELSE None

\* How a call of save_to_cache can end: the file it leaves and whether it
\* returned or raised.  The existing file is read with pd.read_csv alone (its
\* dates stay str), nothing is sorted, and the file is rewritten in place.
crawler_save_to_cache(f, rows) ==
    IF exists(f)
    THEN IF f.st = "ok"
         THEN LET existing_data == read_csv(f)
                  combined == drop_duplicates(existing_data \o rows)
              IN {[cache |-> File(to_csv(combined)), ret |-> "returned"],
                  [cache |-> Partial, ret |-> "raised"]}
         ELSE {[cache |-> f, ret |-> "raised"]}
    ELSE {[cache |-> File(to_csv(rows)), ret |-> "returned"],
          [cache |-> Partial, ret |-> "raised"]}

crawler_save_call ==
    /\ pc = "idle"
    /\ ncalls < MaxCalls
    /\ \E rows \in ProviderRows : \E out \in crawler_save_to_cache(cache, rows) :
          /\ data' = rows
          /\ repeat' = (ret = "returned" /\ rows = data)
          /\ cache' = out.cache
          /\ ret' = out.ret
    /\ pre' = cache
    /\ ncalls' = ncalls + 1
    /\ op' = "save"
    /\ pc' = "done"
    /\ get' = NoGet
    /\ UNCHANGED <<batch, pool, score, arbitrage, retry, data_type, temp, merged, obs>>

crawler_get_call ==
    /\ pc = "idle"
    /\ ncalls < MaxCalls
    /\ ncalls' = ncalls + 1
    /\ op' = "get"
    /\ LET cached_data == crawler_load_from_cache(cache, data_type, CrawlerCacheDays)
       IN IF ~cached_data.none /\ ~empty(cached_data)
          THEN /\ pc' = "done"
               /\ get' = [NoGet EXCEPT !.cached = cached_data, !.df = cached_data]
          ELSE /\ pc' = "akshare"
               /\ get' = [NoGet EXCEPT !.cached = cached_data]
    /\ ret' = "none"
    /\ pre' = cache
    /\ UNCHANGED <<batch, pool, score, arbitrage, retry, data_type, cache, temp, data, merged, repeat, obs>>

\* `save_to_cache(etf_code, data, data_type); return data`
CrawlerSaveAndReturn(rows, called) ==
    \E out \in crawler_save_to_cache(cache, rows) :
       /\ cache' = out.cache
       /\ ret' = out.ret
       /\ data' = rows
       /\ pc' = "done"
       /\ get' = [get EXCEPT !.calls = get.calls \o called,
                             !.df = IF out.ret = "returned" THEN Frame(rows) ELSE None,
                             !.resolved = TRUE]

\* the crawl_ function returned None or an empty frame
CrawlerNext(called, next) ==
    /\ pc' = next
    /\ get' = [get EXCEPT !.calls = get.calls \o called]
    /\ UNCHANGED <<cache, ret, data>>

\* crawl_akshare: the whole history, as the vendor orders it
crawl_akshare ==
    /\ pc = "akshare"
    /\ \E r \in Responses :
          IF r.kind = "rows"
          THEN CrawlerSaveAndReturn(r.rows, <<"crawl_akshare">>)
          ELSE CrawlerNext(<<"crawl_akshare">>, "baostock")
    /\ UNCHANGED <<batch, pool, score, arbitrage, retry, data_type, temp, op, pre, merged, repeat, ncalls, obs>>

\* crawl_baostock: the last 100 days
crawl_baostock ==
    /\ pc = "baostock"
    /\ \E r \in Responses :
          LET df == query_history_k_data_plus(r.rows, Today - BaostockDays, Today)
          IN IF r.kind = "rows" /\ df # <<>>
             THEN CrawlerSaveAndReturn(df, <<"crawl_baostock">>)
             ELSE CrawlerNext(<<"crawl_baostock">>, "sina")
    /\ UNCHANGED <<batch, pool, score, arbitrage, retry, data_type, temp, op, pre, merged, repeat, ncalls, obs>>

\* crawl_sina_finance: the last 100 bars
crawl_sina_finance ==
    /\ pc = "sina"
    /\ \E r \in Responses :
          IF r.kind = "rows"
          THEN CrawlerSaveAndReturn(r.rows, <<"crawl_sina_finance">>)
          ELSE CrawlerNext(<<"crawl_sina_finance">>, "done")
    /\ UNCHANGED <<batch, pool, score, arbitrage, retry, data_type, temp, op, pre, merged, repeat, ncalls, obs>>

\* the call is over
crawler_return ==
    /\ pc = "done"
    /\ pc' = "idle"
    /\ op' = "none"
    /\ pre' = Absent
    /\ get' = [get EXCEPT !.returned = TRUE]
    /\ UNCHANGED <<batch, pool, score, arbitrage, retry, data_type, cache, temp, data, ret, merged, repeat, ncalls, obs>>

----------------------------------------------------------------------------
(* The states a cache file is in before a call *)

InitSeries == {s \in SeqsUpTo([date : DateSet, v : {1}], MaxInitRows) :
                 s # <<>> /\ StrictlyIncreasing(s)}
InitFiles == {Absent, Corrupt} \cup {File(s) : s \in InitSeries}

\* no run of crawl_etf_data / generate_stock_pool has been made
NoBatch == [etf_list |-> <<>>, files |-> <<>>, down |-> {},
            status_file |-> FALSE, status_before |-> FALSE, runs |-> 0,
            ended |-> FALSE,
            result |-> "none", success_count |-> 0, failed_count |-> 0,
            skipped_count |-> 0, called |-> {}]
NoPool == [scores_df |-> <<>>, ended |-> FALSE, result |-> "none",
           stable_etfs |-> <<>>, aggressive_etfs |-> <<>>,
           selected_stable |-> <<>>, selected_aggressive |-> <<>>,
           stable_from |-> "none", aggressive_from |-> "none",
           final_pool |-> <<>>, today |-> 1, runs |-> 0, snapshots |-> {},
           written |-> <<>>]

\* no call of calculate_ETF_score has been made
NoScore == [input |-> <<>>, ended |-> FALSE, result |-> <<>>]

\* no arbitrage status file, no cron run yet; status is the content of the
\* file (<<>> when it does not exist), before the content the last cron run
\* found, now the day (day 0 is a Monday), elapsed the days gone by
NoArbitrage == [status |-> <<>>, before |-> <<>>, last |-> "none",
                now |-> 0, elapsed |-> 0]

\* akshare_retry not yet called
NoRetry == [func |-> <<>>, pc |-> "idle", attempt |-> 0, invocations |-> 0,
            waits |-> <<>>, returned |-> <<>>, raised |-> <<>>]

Init ==
    /\ batch = NoBatch
    /\ pool = NoPool
    /\ score = NoScore
    /\ arbitrage = NoArbitrage
    /\ retry = NoRetry
    /\ data_type \in {"daily", "intraday"}
    /\ cache \in InitFiles
    /\ temp = Absent
    /\ pc = "idle"
    /\ op = "none"
    /\ data = <<>>
    /\ ret = "none"
    /\ pre = Absent
    /\ merged = Absent
    /\ repeat = FALSE
    /\ ncalls = 0
    /\ obs = NoObs
    /\ get = NoGet

SaveSteps ==
    \/ save_write_temp
    \/ save_merge
    \/ save_remove
    \/ save_rename
    \/ save_verify
    \/ save_except

NextCache ==
    \/ save_to_cache_call
    \/ SaveSteps
    \/ save_return
    \/ concurrent_load

SpecCache == Init /\ [][NextCache]_vars

\* data_fix.py as a whole: both entry points and the concurrent reader
Next ==
    \/ save_to_cache_call
    \/ save_return
    \/ concurrent_load
    \/ get_etf_data_call
    \/ get_akshare
    \/ get_baostock
    \/ get_sina
    \/ get_return
    \/ SaveSteps

Spec == Init /\ [][Next]_vars

NextGet ==
    \/ get_etf_data_call
    \/ get_akshare
    \/ get_baostock
    \/ get_sina
    \/ SaveSteps
    \/ get_return

SpecGet == Init /\ [][NextGet]_vars

NextCrawler ==
    \/ crawler_save_call
    \/ crawler_get_call
    \/ crawl_akshare
    \/ crawl_baostock
    \/ crawl_sina_finance
    \/ crawler_return

SpecCrawler == Init /\ [][NextCrawler]_vars

\* the last call of a process: any cache file, and the temp file an earlier
\* save_to_cache may have failed to remove
InitLastCall ==
    /\ batch = NoBatch
    /\ pool = NoPool
    /\ score = NoScore
    /\ arbitrage = NoArbitrage
    /\ retry = NoRetry
    /\ data_type \in {"daily", "intraday"}
    /\ cache \in InitFiles
    /\ temp \in {Absent, Partial}
    /\ pc = "idle"
    /\ op = "none"
    /\ data = <<>>
    /\ ret = "none"
    /\ pre = Absent
    /\ merged = Absent
    /\ repeat = FALSE
    /\ ncalls = MaxCalls - 1
    /\ obs = NoObs
    /\ get = NoGet

\* one call of data_fix.get_etf_data with everything it does
SpecLastGet == InitLastCall /\ [][NextGet]_vars

----------------------------------------------------------------------------
(* data_fix.py : crawl_etf_data, the batch run over the ETF list *)

MaxRuns == 2
Symbols == {"510050", "159919"}

\* the cache files of the symbols before a run: none, unreadable, newest
\* row two days old, of yesterday, of today
BatchFiles == {Absent, Corrupt} \cup
    {File(<<[date |-> d, v |-> 1]>>) : d \in {Today - 2, Today - 1, Today}}

\* etf_list: no symbol twice
EtfLists == {l \in SeqsUpTo(Symbols, Cardinality(Symbols)) :
               \A i, j \in DOMAIN l : i # j => l[i] # l[j]}

\* a call that ends in the exception exc instead of a value
Raise(exc) == [exc |-> exc, val |-> None]

\* `etf_code = standardize_code(etf['code'])`: no module of the repository
\* defines or imports the name, calling it raises NameError
standardize_code(code) == Raise("NameError")

\* `update_crawl_status(etf_code, 'failed', str(e))`: not defined either
update_crawl_status(etf_code, status) == Raise("NameError")

\* `get_etf_data(etf_code, 'daily', start_date=start_date)` against
\* `def get_etf_data(etf_code, data_type='daily')`: unexpected keyword
get_etf_data_start_date(etf_code, start_date) == Raise("TypeError")

\* one pass of the loop body: "raised" when an exception leaves the function,
\* else how the symbol was counted
crawl_symbol(code, f) ==
    LET etf_code == standardize_code(code)
    IN IF etf_code.exc # "" THEN "raised"
       ELSE LET cached_data == load_from_cache(f, "daily", CacheDays)
                fresh == /\ ~cached_data.none /\ ~empty(cached_data)
                         /\ Today - MaxDate(cached_data.rows) <= 1
                start_date == IF ~cached_data.none /\ ~empty(cached_data)
                              THEN MaxDate(cached_data.rows) + 1
                              ELSE Today - CacheDays
                got == get_etf_data_start_date(etf_code.val, start_date)
            IN IF fresh THEN "skipped"
               ELSE IF got.exc # ""
                    THEN IF update_crawl_status(etf_code.val, "failed").exc # ""
                         THEN "raised" ELSE "failed"
                    ELSE IF /\ ~got.val.none /\ ~empty(got.val)
                            /\ check_data_completeness(got.val.rows, MinRecords)
                         THEN "success" ELSE "failed"

RECURSIVE crawl_loop(_, _, _)
\* `for _, etf in etf_list.iterrows()`
crawl_loop(list, files, acc) ==
    IF list = <<>> THEN acc
    ELSE LET o == crawl_symbol(Head(list), files[Head(list)])
         IN IF o = "raised" THEN [acc EXCEPT !.result = "raised"]
            ELSE crawl_loop(Tail(list), files,
                   [acc EXCEPT
                      !.success_count = @ + (IF o = "success" THEN 1 ELSE 0),
                      !.failed_count = @ + (IF o = "failed" THEN 1 ELSE 0),
                      !.skipped_count = @ + (IF o = "skipped" THEN 1 ELSE 0),
                      !.called = IF o \in {"success", "failed"}
                                 THEN @ \cup {Head(list)} ELSE @])

\* the whole call of crawl_etf_data
crawl_etf_data ==
    /\ batch.runs < MaxRuns
    /\ LET start == [batch EXCEPT !.runs = @ + 1, !.ended = TRUE,
                                  !.status_before = batch.status_file,
                                  !.success_count = 0, !.failed_count = 0,
                                  !.skipped_count = 0, !.called = {}]
           looped == crawl_loop(batch.etf_list, batch.files,
                                [start EXCEPT !.result = "looping"])
       IN IF batch.etf_list = <<>>
          THEN batch' = [start EXCEPT !.result = "error"]
          ELSE IF looped.result = "raised"
          THEN batch' = looped
          ELSE batch' = [looped EXCEPT
                  !.status_file = IF looped.success_count = Len(batch.etf_list)
                                  THEN FALSE ELSE @,
                  !.result = IF looped.failed_count = 0
                             THEN "success" ELSE "partial_success"]
    /\ UNCHANGED <<pool, score, arbitrage, retry, data_type, cache, temp, pc, op, data, ret, pre, merged, repeat,
                   ncalls, obs, get>>

\* before a run: any list, any cache file per symbol, the status file left
\* by an earlier process or not, any set of symbols no provider can serve
InitBatch ==
    /\ batch \in {[NoBatch EXCEPT !.etf_list = l, !.files = f, !.down = d,
                                  !.status_file = b] :
                    l \in EtfLists, f \in [Symbols -> BatchFiles],
                    d \in SUBSET Symbols, b \in BOOLEAN}
    /\ pool = NoPool
    /\ score = NoScore
    /\ arbitrage = NoArbitrage
    /\ retry = NoRetry
    /\ data_type = "daily"
    /\ cache = Absent
    /\ temp = Absent
    /\ pc = "idle"
    /\ op = "none"
    /\ data = <<>>
    /\ ret = "none"
    /\ pre = Absent
    /\ merged = Absent
    /\ repeat = FALSE
    /\ ncalls = 0
    /\ obs = NoObs
    /\ get = NoGet

NextBatch ==
    \/ crawl_etf_data

SpecBatch == InitBatch /\ [][NextBatch]_vars

----------------------------------------------------------------------------
(* data_fix.py : check_data_completeness on the frame a provider branch of
   get_etf_data holds (get.df); data is the frame afterwards, the one the
   branch hands to save_to_cache and returns *)

\* frames around the record count the check asks for, one row per day up to
\* today, every cell present or missing
CheckedFrames ==
    UNION {{[i \in 1..n |-> [date |-> Today - n + i, v |-> c[i], rep |-> "ts"]] :
              c \in [1..n -> Vals \cup {NaN}]} : n \in {MinRecords - 1, MinRecords}}

check_data_completeness_call ==
    /\ pc = "check"
    /\ pc' = "done"
    /\ data' = fillna(get.df.rows, MinRecords)
    /\ ret' = IF check_data_completeness(get.df.rows, MinRecords)
              THEN "True" ELSE "False"
    /\ UNCHANGED <<batch, pool, score, arbitrage, retry, data_type, cache, temp, op, pre, merged, repeat, ncalls,
                   obs, get>>

InitChecked ==
    /\ get \in {[NoGet EXCEPT !.df = Frame(rows)] : rows \in CheckedFrames}
    /\ pc = "check"
    /\ op = "check"
    /\ batch = NoBatch
    /\ pool = NoPool
    /\ score = NoScore
    /\ arbitrage = NoArbitrage
    /\ retry = NoRetry
    /\ data_type = "daily"
    /\ cache = Absent
    /\ temp = Absent
    /\ data = <<>>
    /\ ret = "none"
    /\ pre = Absent
    /\ merged = Absent
    /\ repeat = FALSE
    /\ ncalls = 0
    /\ obs = NoObs

NextChecked ==
    \/ check_data_completeness_call

SpecChecked == InitChecked /\ [][NextChecked]_vars

----------------------------------------------------------------------------
(* scoring.py : generate_stock_pool *)

K == 5
RiskThreshold == 75
MaxScores == 3

\* the scores a record can carry: totals that tie or differ, a risk score on
\* the threshold and two above it, two return scores
Totals == {1, 2}
Risks == {RiskThreshold, RiskThreshold + 1, RiskThreshold + 2}
Returns == {1, 2}

\* scores_df = pd.DataFrame(scored_etfs): the code of a record is its place in
\* the ETF list
Scored(s) == [i \in DOMAIN s |->
                [code |-> i, total_score |-> s[i].total_score,
                 risk_score |-> s[i].risk_score, return_score |-> s[i].return_score]]

\* the inputs: every list of up to MaxScores records, and the lists of K + 1
\* records above the threshold, where head(K) has to leave one out
ScoreLists ==
    {Scored(s) : s \in SeqsUpTo([total_score : Totals, risk_score : Risks,
                                 return_score : Returns], MaxScores)}
    \cup {Scored(s) : s \in [1..(K + 1) ->
                               [total_score : Totals,
                                risk_score : Risks \ {RiskThreshold},
                                return_score : {1}]]}

StableEligibleAtThreshold(r) == r.risk_score >= RiskThreshold
\* `scores_df['risk_score'] > 75`
StableEligible(r) == r.risk_score > RiskThreshold

\* `scores_df['risk_score'] <= 75`
AggressiveEligible(r) == r.risk_score <= RiskThreshold

RECURSIVE sort_total_desc(_)
\* sort_values('total_score', ascending=False): the possible results; the
\* default sort kind promises no order among equal totals
sort_total_desc(rows) ==
    IF rows = <<>> THEN {<<>>}
    ELSE LET firsts == {i \in DOMAIN rows :
                          \A j \in DOMAIN rows :
                             rows[i].total_score >= rows[j].total_score}
         IN UNION {{<<rows[i]>> \o t : t \in sort_total_desc(RemoveAt(rows, i))}
                    : i \in firsts}

head(rows, n) == SubSeq(rows, 1, IF Len(rows) < n THEN Len(rows) ELSE n)

\* the five fallback symbols of a bucket, scored by calculate_ETF_score
fallback_stable == [i \in 1..5 |->
    [code |-> 100 + i, total_score |-> 1, risk_score |-> RiskThreshold + 1,
     return_score |-> 1]]
fallback_aggressive == [i \in 1..5 |->
    [code |-> 200 + i, total_score |-> 1, risk_score |-> RiskThreshold,
     return_score |-> 1]]

\* the buckets: head(5) of the sorted eligible records, the fallback list
\* only when no record is eligible
Selections(eligible, fallback) ==
    IF eligible # <<>>
    THEN {[rows |-> head(t, K), from |-> "scores"] : t \in sort_total_desc(eligible)}
    ELSE {[rows |-> fallback, from |-> "fallback"]}

\* final_pool = pd.DataFrame({'type': [...] * len(selected_stable) + [...] *
\* len(selected_aggressive), 'code': scores_df['code'].tolist(), ...}): the
\* type labels are laid over scores_df in its own order, and columns of
\* different lengths raise ValueError
final_pool(scores_df, n_stable, n_aggressive) ==
    IF n_stable + n_aggressive # Len(scores_df)
    THEN Raise("ValueError")
    ELSE [exc |-> "",
          val |-> [i \in DOMAIN scores_df |->
                     [type |-> IF i <= n_stable THEN "stable" ELSE "aggressive",
                      code |-> scores_df[i].code,
                      total_score |-> scores_df[i].total_score,
                      risk_score |-> scores_df[i].risk_score,
                      return_score |-> scores_df[i].return_score]]]

\* final_pool.to_csv(.../stock_pool_YYYYMMDD.csv): the directory afterwards;
\* the file name is the day, a file of that name is replaced
to_csv_pool(dir, day, rows) ==
    {f \in dir : f.day # day} \cup {[day |-> day, rows |-> rows]}

\* the whole call of generate_stock_pool
generate_stock_pool ==
    /\ ~pool.ended
    /\ IF pool.scores_df = <<>>
       THEN pool' = [pool EXCEPT !.ended = TRUE, !.result = "None"]
       ELSE LET stable_etfs == SelectSeq(pool.scores_df, StableEligible)
                aggressive_etfs == SelectSeq(pool.scores_df, AggressiveEligible)
            IN \E selected_stable \in Selections(stable_etfs, fallback_stable) :
               \E selected_aggressive \in Selections(aggressive_etfs, fallback_aggressive) :
                  LET made == final_pool(pool.scores_df, Len(selected_stable.rows),
                                         Len(selected_aggressive.rows))
                  IN pool' = [pool EXCEPT
                        !.ended = TRUE,
                        !.stable_etfs = stable_etfs,
                        !.aggressive_etfs = aggressive_etfs,
                        !.selected_stable = selected_stable.rows,
                        !.selected_aggressive = selected_aggressive.rows,
                        !.stable_from = selected_stable.from,
                        !.aggressive_from = selected_aggressive.from,
                        !.result = IF made.exc # "" THEN "raised" ELSE "pool",
                        !.final_pool = IF made.exc # "" THEN <<>> ELSE made.val,
                        !.snapshots = IF made.exc # "" THEN @
                                      ELSE to_csv_pool(@, pool.today, made.val),
                        !.written = IF made.exc # "" THEN @
                                    ELSE Append(@, [day |-> pool.today,
                                                    rows |-> made.val])]
    /\ UNCHANGED <<batch, score, arbitrage, retry, data_type, cache, temp, pc, op, data, ret, pre, merged, repeat,
                   ncalls, obs, get>>

InitPool ==
    /\ pool \in {[NoPool EXCEPT !.scores_df = s] : s \in ScoreLists}
    /\ batch = NoBatch
    /\ score = NoScore
    /\ arbitrage = NoArbitrage
    /\ retry = NoRetry
    /\ data_type = "daily"
    /\ cache = Absent
    /\ temp = Absent
    /\ pc = "idle"
    /\ op = "none"
    /\ data = <<>>
    /\ ret = "none"
    /\ pre = Absent
    /\ merged = Absent
    /\ repeat = FALSE
    /\ ncalls = 0
    /\ obs = NoObs
    /\ get = NoGet

NextPool ==
    \/ generate_stock_pool

SpecPool == InitPool /\ [][NextPool]_vars

(* Repeated runs of generate_stock_pool, on the same day or the next *)

MaxPoolRuns == 2

\* the score records of a run: the lists of one or two records
RunLists == {s \in ScoreLists : s # <<>> /\ Len(s) <= 2}

\* the scheduler starts another run: the ETFs are scored anew and
\* get_beijing_time() gives the same day or a later one
generate_stock_pool_again ==
    /\ pool.ended
    /\ pool.runs + 1 < MaxPoolRuns
    /\ \E s \in RunLists, d \in {pool.today, pool.today + 1} :
          pool' = [NoPool EXCEPT !.scores_df = s, !.today = d,
                                 !.runs = pool.runs + 1,
                                 !.snapshots = pool.snapshots,
                                 !.written = pool.written]
    /\ UNCHANGED <<batch, score, arbitrage, retry, data_type, cache, temp, pc, op, data, ret, pre, merged, repeat,
                   ncalls, obs, get>>

InitRuns ==
    /\ pool \in {[NoPool EXCEPT !.scores_df = s] : s \in RunLists}
    /\ batch = NoBatch
    /\ score = NoScore
    /\ arbitrage = NoArbitrage
    /\ retry = NoRetry
    /\ data_type = "daily"
    /\ cache = Absent
    /\ temp = Absent
    /\ pc = "idle"
    /\ op = "none"
    /\ data = <<>>
    /\ ret = "none"
    /\ pre = Absent
    /\ merged = Absent
    /\ repeat = FALSE
    /\ ncalls = 0
    /\ obs = NoObs
    /\ get = NoGet

NextRuns ==
    \/ generate_stock_pool
    \/ generate_stock_pool_again

SpecRuns == InitRuns /\ [][NextRuns]_vars

----------------------------------------------------------------------------
(* data_fix.py : generate_stock_pool, the variant that picks each bucket with
   nlargest and labels the rows of the concatenated frame by index *)

RECURSIVE nlargest(_, _, _)
\* DataFrame.nlargest(n, col): the n rows with the largest col, largest
\* first, rows of equal col in the order of the frame (keep='first')
nlargest(rows, n, col) ==
    IF n = 0 \/ rows = <<>> THEN <<>>
    ELSE LET i == CHOOSE i \in DOMAIN rows :
                     /\ \A j \in DOMAIN rows : rows[j][col] <= rows[i][col]
                     /\ \A j \in 1..(i - 1) : rows[j][col] < rows[i][col]
         IN <<rows[i]>> \o nlargest(RemoveAt(rows, i), n - 1, col)

RECURSIVE SubSeqs(_, _)
\* nlargest(5, 'premium_score'): the records of the model carry no premium
\* score, so any n of the rows are a possible result (all of them when
\* there are no more than n)
SubSeqs(rows, n) ==
    IF Len(rows) <= n THEN {rows}
    ELSE IF n = 0 THEN {<<>>}
    ELSE {<<Head(rows)>> \o t : t \in SubSeqs(Tail(rows), n - 1)}
         \cup SubSeqs(Tail(rows), n)

Index(rows) == {rows[i].code : i \in DOMAIN rows}

type_by_frame(i, index, selected_stable, selected_aggressive) ==
    IF i <= Len(selected_stable) THEN "stable" ELSE "aggressive"
\* final_pool['type'] = ''; .loc[index.isin(selected_stable.index)] = stable;
\* .loc[index.isin(selected_aggressive.index)] = aggressive: the later
\* assignment stands for a row whose index is in both
type_by_index(i, index, selected_stable, selected_aggressive) ==
    IF index \in Index(selected_aggressive) THEN "aggressive"
    ELSE IF index \in Index(selected_stable) THEN "stable"
    ELSE ""

\* pd.concat([selected_stable, selected_aggressive]) with its type column
concat_typed(selected_stable, selected_aggressive) ==
    LET both == selected_stable \o selected_aggressive
    IN [i \in DOMAIN both |->
          [type |-> type_by_index(i, both[i].code, selected_stable, selected_aggressive),
           code |-> both[i].code,
           total_score |-> both[i].total_score,
           risk_score |-> both[i].risk_score,
           return_score |-> both[i].return_score]]

\* the whole call of data_fix.generate_stock_pool, up to the file it writes
data_fix_generate_stock_pool ==
    /\ ~pool.ended
    /\ IF pool.scores_df = <<>>
       THEN pool' = [pool EXCEPT !.ended = TRUE, !.result = "None"]
       ELSE \E scores_df \in sort_total_desc(pool.scores_df) :
            LET selected_stable ==
                   nlargest(nlargest(scores_df, 10, "total_score"), K, "risk_score")
            IN \E selected_aggressive \in
                     SubSeqs(nlargest(scores_df, 10, "return_score"), K) :
                  IF Len(selected_stable) < K \/ Len(selected_aggressive) < K
                  THEN pool' = [pool EXCEPT !.ended = TRUE, !.result = "None"]
                  ELSE LET made == concat_typed(selected_stable, selected_aggressive)
                       IN pool' = [pool EXCEPT
                             !.ended = TRUE,
                             !.selected_stable = selected_stable,
                             !.selected_aggressive = selected_aggressive,
                             !.stable_from = "scores",
                             !.aggressive_from = "scores",
                             !.result = "pool",
                             !.final_pool = made,
                             !.snapshots = to_csv_pool(@, pool.today, made),
                             !.written = Append(@, [day |-> pool.today,
                                                    rows |-> made])]
    /\ UNCHANGED <<batch, score, arbitrage, retry, data_type, cache, temp, pc, op, data,
                   ret, pre, merged, repeat, ncalls, obs, get>>

\* the inputs: lists whose totals all differ, with a risk score on the
\* threshold or above it: every list of up to MaxScores records, and the
\* lists of K and of K + 1 records, from which both buckets can be filled
BucketLists ==
    {Scored([i \in DOMAIN r |->
               [total_score |-> i, risk_score |-> r[i][1], return_score |-> r[i][2]]]) :
       r \in SeqsUpTo(Risks \X Returns, MaxScores)
              \cup [1..K -> Risks \X {1}] \cup [1..(K + 1) -> Risks \X {1}]}

InitBuckets ==
    /\ pool \in {[NoPool EXCEPT !.scores_df = s] : s \in BucketLists}
    /\ batch = NoBatch
    /\ score = NoScore
    /\ arbitrage = NoArbitrage
    /\ retry = NoRetry
    /\ data_type = "daily"
    /\ cache = Absent
    /\ temp = Absent
    /\ pc = "idle"
    /\ op = "none"
    /\ data = <<>>
    /\ ret = "none"
    /\ pre = Absent
    /\ merged = Absent
    /\ repeat = FALSE
    /\ ncalls = 0
    /\ obs = NoObs
    /\ get = NoGet

\* either module's generate_stock_pool
NextBuckets ==
    \/ generate_stock_pool
    \/ data_fix_generate_stock_pool

SpecBuckets == InitBuckets /\ [][NextBuckets]_vars

----------------------------------------------------------------------------
(* scoring.py : the five sub-scores and calculate_ETF_score

   The statistics pandas computes from the series (means, standard deviation,
   draw-down, returns) are inputs of the model; what the functions do with
   them is computed as the code computes it.  A sub-score is kept in tenths
   of a point, the weighted total in thousandths, so that the products with
   0.6 / 0.4 and with SCORE_WEIGHTS are exact. *)

\* a float that is not a number
nan == -1000000

\* Python's max(a, b) and min(a, b): b is taken only when b > a (b < a)
\* compares true, which it never does for nan
max(a, b) == IF b # nan /\ b > a THEN b ELSE a
min(a, b) == IF b # nan /\ b < a THEN b ELSE a
abs(x) == IF x < 0 THEN 0 - x ELSE x

\* len(etf_data)
Bars == {1, 2, 30, 31, 251, 252, 755, 756}
\* (avg_volume / 10) * 100, in points
VolumeRaws == {0, 250}
\* annual_volatility and max_drawdown, in percent
RiskStats == {<<0, 0>>, <<20, 30>>, <<60, 100>>}
\* (close[-1] / close[-252] - 1) * 100 and the same over 756 bars
OneYearReturns == {-20, 0, 10, 80}
ThreeYearReturns == {-50, 150}
\* sharpe_ratio * 10: nan when the returns have no spread
Sharpes == {nan, -5, 200}
\* what calculate_premium_rate finds: no intraday price, no NAV, or a premium
\* rate in tenths of a percent
Premiums == {[price |-> FALSE, nav |-> FALSE, rate |-> 0],
             [price |-> TRUE, nav |-> FALSE, rate |-> 0]}
            \cup {[price |-> TRUE, nav |-> TRUE, rate |-> r] :
                    r \in {-250, -11, -10, -5, -1, 0, 4, 5, 10, 15, 16, 250}}
\* calculate_component_weights: {} or the sum of the five largest weights in
\* percent and the number of components
Weights == {[some |-> FALSE, top5 |-> 0, count |-> 0],
            [some |-> TRUE, top5 |-> 100, count |-> 3],
            [some |-> TRUE, top5 |-> 10, count |-> 60]}

ScoreInputs ==
    [bars : Bars, volume_raw : VolumeRaws, risk : RiskStats,
     one_year : OneYearReturns, three_year : ThreeYearReturns,
     sharpe : Sharpes, premium : Premiums, weights : Weights]

calculate_liquidity_score(in) ==
    LET scale == 5
        volume_score == min(100, in.volume_raw)
        scale_score == min(100, (scale * 100) \div 10)
    IN volume_score * 6 + scale_score * 4

calculate_risk_score(in) ==
    LET daily_returns == in.bars - 1
        volatility_score == max(0, 100 - in.risk[1] * 2)
        drawdown_score == max(0, 100 - in.risk[2] * 2)
    IN IF daily_returns < 30 THEN 700
       ELSE volatility_score * 6 + drawdown_score * 4

\* one_year_return
one_year_return(in) == IF in.bars >= 252 THEN in.one_year ELSE 0

three_year_return_tripled(in) ==
    IF in.bars >= 756 THEN in.three_year ELSE one_year_return(in) * 3
\* three_year_return
three_year_return(in) ==
    IF in.bars >= 756 THEN in.three_year
    ELSE IF one_year_return(in) > 0 THEN one_year_return(in) * 3
         ELSE one_year_return(in)

calculate_return_score(in) ==
    LET daily_returns == in.bars - 1
        sharpe_ratio10 == IF daily_returns > 0 THEN in.sharpe ELSE 0
        one_year_score == min(100, max(0, one_year_return(in) * 2))
        three_year_score == min(100, max(0, three_year_return(in)))
        sharpe_score == min(100, max(0, sharpe_ratio10))
    IN one_year_score * 3 + three_year_score * 4 + sharpe_score * 3

\* crawler.py calculate_premium_rate, in tenths of a percent
calculate_premium_rate(in) ==
    IF ~in.premium.price THEN 0
    ELSE IF ~in.premium.nav THEN 0
    ELSE in.premium.rate

calculate_premium_score_uncapped(premium_rate) ==
    LET deviation == abs(premium_rate)
        base == max(0, 1000 - deviation * 5)
        bonus == IF 5 <= premium_rate /\ premium_rate <= 15 THEN base + 100 ELSE base
    IN IF -10 <= premium_rate /\ premium_rate < 0 THEN bonus + 50 ELSE bonus
calculate_premium_score_premium_bonus_only(premium_rate) ==
    LET deviation == abs(premium_rate)
        base == max(0, 1000 - deviation * 5)
    IN IF 5 <= premium_rate /\ premium_rate <= 15
       THEN min(1000, base + 100) ELSE base
\* the premium rate is in tenths of a percent, the score in tenths of a point
calculate_premium_score(premium_rate) ==
    LET deviation == abs(premium_rate)
        base == max(0, 1000 - deviation * 5)
        bonus == IF 5 <= premium_rate /\ premium_rate <= 15
                 THEN min(1000, base + 100) ELSE base
    IN IF -10 <= premium_rate /\ premium_rate < 0
       THEN min(1000, bonus + 50) ELSE bonus

calculate_sentiment_score(in) ==
    LET industry_diversity == min(10, in.weights.count \div 5)
        leader_score == min(100, (in.weights.top5 * 150) \div 100)
        diversity_score == min(100, industry_diversity * 10)
    IN IF ~in.weights.some THEN 600
       ELSE leader_score * 6 + diversity_score * 4

\* round(total_score, 1): from thousandths to tenths; either neighbour when
\* the value lies half-way, where the binary float decides
round1(x) ==
    LET q == x \div 100
        r == x % 100
    IN IF r < 50 THEN {q} ELSE IF r > 50 THEN {q + 1} ELSE {q, q + 1}

\* the whole call of calculate_ETF_score on data that get_etf_data returned
calculate_ETF_score ==
    /\ ~score.ended
    /\ LET in == score.input
           liquidity_score == calculate_liquidity_score(in)
           risk_score == calculate_risk_score(in)
           return_score == calculate_return_score(in)
           premium_score == calculate_premium_score(calculate_premium_rate(in))
           sentiment_score == calculate_sentiment_score(in)
           total_score == liquidity_score * 20 + risk_score * 25
                          + return_score * 25 + premium_score * 15
                          + sentiment_score * 15
       IN \E total \in round1(total_score) :
             score' = [score EXCEPT
                !.ended = TRUE,
                !.result = [total_score |-> total,
                            liquidity_score |-> liquidity_score,
                            risk_score |-> risk_score,
                            return_score |-> return_score,
                            premium_score |-> premium_score,
                            sentiment_score |-> sentiment_score,
                            one_year_return |-> one_year_return(in),
                            three_year_return |-> three_year_return(in)]]
    /\ UNCHANGED <<batch, pool, arbitrage, retry, data_type, cache, temp, pc, op, data, ret, pre,
                   merged, repeat, ncalls, obs, get>>

InitScore ==
    /\ score \in {[NoScore EXCEPT !.input = in] : in \in ScoreInputs}
    /\ arbitrage = NoArbitrage
    /\ retry = NoRetry
    /\ batch = NoBatch
    /\ pool = NoPool
    /\ data_type = "daily"
    /\ cache = Absent
    /\ temp = Absent
    /\ pc = "idle"
    /\ op = "none"
    /\ data = <<>>
    /\ ret = "none"
    /\ pre = Absent
    /\ merged = Absent
    /\ repeat = FALSE
    /\ ncalls = 0
    /\ obs = NoObs
    /\ get = NoGet

NextScore ==
    \/ calculate_ETF_score

SpecScore == InitScore /\ [][NextScore]_vars

----------------------------------------------------------------------------
(* data_fix.py / data_source.py : akshare_retry(func, ...)

   retry.func lists what the wrapped call does on its successive
   invocations: it returns a value or raises an exception.  One entry more
   than max_attempts is listed, so that an invocation past the last attempt
   would be seen. *)

max_attempts == 3

\* what one invocation of func does
Outcomes == {[ok |-> TRUE, v |-> "df1"], [ok |-> TRUE, v |-> "df2"],
             [ok |-> FALSE, v |-> "ConnectionError"],
             [ok |-> FALSE, v |-> "Timeout"]}

Funcs == [1..(max_attempts + 1) -> Outcomes]

RECURSIVE pow2(_)
pow2(n) == IF n = 0 THEN 1 ELSE 2 * pow2(n - 1)

wait_time_fixed(attempt) == 1
\* wait_time = 2 ** attempt
wait_time(attempt) == pow2(attempt)

RetryFrame ==
    UNCHANGED <<batch, pool, score, arbitrage, data_type, cache, temp, pc, op, data,
                ret, pre, merged, repeat, ncalls, obs, get>>

\* one pass through the body of "for attempt in range(max_attempts)": func
\* is invoked; its value is returned, or its exception is caught and either
\* a wait is started or, on the last attempt, the exception is raised again
akshare_retry_attempt ==
    /\ retry.pc = "try"
    /\ retry.attempt < max_attempts
    /\ LET n == retry.invocations + 1
           out == retry.func[n]
       IN IF out.ok
          THEN retry' = [retry EXCEPT !.invocations = n, !.pc = "done",
                                      !.returned = <<out.v>>]
          ELSE IF retry.attempt < max_attempts - 1
          THEN retry' = [retry EXCEPT !.invocations = n, !.pc = "sleep",
                            !.waits = Append(@, wait_time(retry.attempt))]
          ELSE retry' = [retry EXCEPT !.invocations = n, !.pc = "done",
                                      !.raised = <<out.v>>]
    /\ RetryFrame

\* time.sleep(wait_time) returns and the loop goes to the next attempt
akshare_retry_sleep ==
    /\ retry.pc = "sleep"
    /\ retry' = [retry EXCEPT !.pc = "try", !.attempt = @ + 1]
    /\ RetryFrame

InitRetry ==
    /\ retry \in {[NoRetry EXCEPT !.func = f, !.pc = "try"] : f \in Funcs}
    /\ score = NoScore
    /\ arbitrage = NoArbitrage
    /\ batch = NoBatch
    /\ pool = NoPool
    /\ data_type = "daily"
    /\ cache = Absent
    /\ temp = Absent
    /\ pc = "idle"
    /\ op = "none"
    /\ data = <<>>
    /\ ret = "none"
    /\ pre = Absent
    /\ merged = Absent
    /\ repeat = FALSE
    /\ ncalls = 0
    /\ obs = NoObs
    /\ get = NoGet

NextRetry ==
    \/ akshare_retry_attempt
    \/ akshare_retry_sleep

\* the loop is sequential code: a step that can be taken is taken
SpecRetry == InitRetry /\ [][NextRetry]_vars /\ WF_vars(NextRetry)

----------------------------------------------------------------------------
(* main.py : the arbitrage status file and the two cron runs that write it *)

MaxElapsed == 2

\* what scan_arbitrage_opportunities can put first in its list: a discount
\* (target above, stop below the price) or a premium (target below, stop
\* above)
Opportunities ==
    [etf_code : {"510300", "159915"}, current_price : {10},
     target_price : {12}, stop_loss_price : {9}]
    \cup [etf_code : {"510300", "159915"}, current_price : {10},
          target_price : {8}, stop_loss_price : {11}]

\* scan_arbitrage_opportunities(): None, or a list whose first entry counts
Scans == {<<>>} \cup {<<o>> : o \in Opportunities}

\* etf_data['close'].iloc[-1] of the holding, <<>> when no data came
Closes == {<<>>} \cup {<<p>> : p \in {8, 10, 12}}

\* the file after update_arbitrage_status(...): whatever was there is
\* overwritten
update_arbitrage_status(opportunity, current_time) ==
    <<[etf_code |-> opportunity.etf_code, buy_time |-> current_time,
       buy_price |-> opportunity.current_price,
       target_price |-> opportunity.target_price,
       stop_loss_price |-> opportunity.stop_loss_price]>>

\* the file after clear_arbitrage_status()
clear_arbitrage_status == <<>>

\* a weekday between the day of the purchase and today
is_holding_over_one_trading_day(buy_time, current_time) ==
    Cardinality({d \in buy_time..(current_time - 1) : d % 7 < 5}) >= 1

\* the take-profit and stop-loss tests of cron_crawl_intraday
take_profit(st, current_price) ==
    \/ current_price >= st.target_price /\ st.buy_price < st.target_price
    \/ current_price <= st.target_price /\ st.buy_price > st.target_price
stop_loss(st, current_price) ==
    \/ current_price <= st.stop_loss_price /\ st.buy_price < st.stop_loss_price
    \/ current_price >= st.stop_loss_price /\ st.buy_price > st.stop_loss_price

ArbitrageFrame ==
    UNCHANGED <<batch, pool, score, retry, data_type, cache, temp, pc, op, data, ret,
                pre, merged, repeat, ncalls, obs, get>>

\* the whole run of cron_crawl_intraday, as far as the status file goes
cron_crawl_intraday ==
    /\ \E trading_day \in BOOLEAN, etf_list \in BOOLEAN,
          etf_data \in Closes, opportunities \in Scans :
          LET arbitrage_status == arbitrage.status
              after ==
                 IF ~trading_day \/ ~etf_list THEN arbitrage_status
                 ELSE IF arbitrage_status # <<>>
                 THEN IF is_holding_over_one_trading_day(
                            arbitrage_status[1].buy_time, arbitrage.now)
                      THEN clear_arbitrage_status
                      ELSE IF etf_data = <<>> THEN arbitrage_status
                      ELSE IF take_profit(arbitrage_status[1], etf_data[1])
                      THEN clear_arbitrage_status
                      ELSE IF stop_loss(arbitrage_status[1], etf_data[1])
                      THEN clear_arbitrage_status
                      ELSE arbitrage_status
                 ELSE IF opportunities # <<>>
                 THEN update_arbitrage_status(opportunities[1], arbitrage.now)
                 ELSE arbitrage_status
          IN arbitrage' = [arbitrage EXCEPT !.status = after,
                                            !.before = arbitrage_status,
                                            !.last = "cron_crawl_intraday"]
    /\ ArbitrageFrame

\* the whole run of cron_arbitrage_scan
cron_arbitrage_scan ==
    /\ \E opportunities \in Scans :
          arbitrage' = [arbitrage EXCEPT
             !.status = IF opportunities # <<>>
                        THEN update_arbitrage_status(opportunities[1], arbitrage.now)
                        ELSE @,
             !.before = arbitrage.status,
             !.last = "cron_arbitrage_scan"]
    /\ ArbitrageFrame

\* midnight passes
next_day ==
    /\ arbitrage.elapsed < MaxElapsed
    /\ arbitrage' = [arbitrage EXCEPT !.now = @ + 1, !.elapsed = @ + 1,
                                      !.before = arbitrage.status,
                                      !.last = "none"]
    /\ ArbitrageFrame

\* no status file; the first day is any day of the week
InitArbitrage ==
    /\ arbitrage \in {[NoArbitrage EXCEPT !.now = d] : d \in 0..6}
    /\ score = NoScore
    /\ retry = NoRetry
    /\ batch = NoBatch
    /\ pool = NoPool
    /\ data_type = "daily"
    /\ cache = Absent
    /\ temp = Absent
    /\ pc = "idle"
    /\ op = "none"
    /\ data = <<>>
    /\ ret = "none"
    /\ pre = Absent
    /\ merged = Absent
    /\ repeat = FALSE
    /\ ncalls = 0
    /\ obs = NoObs
    /\ get = NoGet

NextArbitrage ==
    \/ cron_crawl_intraday
    \/ cron_arbitrage_scan
    \/ next_day

SpecArbitrage == InitArbitrage /\ [][NextArbitrage]_vars

----------------------------------------------------------------------------
(* Properties of the cache store (data_fix.py, SpecCache) *)

SaveReturned(result) == pc = "done" /\ op = "save" /\ ret = result

\* C1: after a save_to_cache that returns success the persisted series has no
\* two rows of the same date and its rows are in ascending date order, for
\* every prior file and every non-empty new_rows.
C1_PersistedSortedUnique ==
    SaveReturned("True") => cache.st = "ok" /\ StrictlyIncreasing(cache.rows)

\* C2: merge idempotence: a second save_to_cache with the same rows leaves
\* the persisted series as the first call left it.
C2_MergeIdempotent ==
    (SaveReturned("True") /\ repeat) => cache = pre

\* C3: a save_to_cache that returns False leaves the cache file that existed
\* before the call in place with its prior content.
C3_FailedSaveKeepsFile ==
    SaveReturned("False") => cache = pre

\* C4: atomic replace: a load_from_cache concurrent with a save_to_cache sees
\* the complete series from before the save or the complete series after it,
\* and never sees the cache absent when a file existed before the save.
C4_ReaderSeesOldOrNew ==
    obs.seen =>
       /\ load_from_cache(obs.file, data_type, CacheDays)
             \in {load_from_cache(obs.pre, data_type, CacheDays),
                  load_from_cache(obs.merged, data_type, CacheDays)}
       /\ exists(obs.pre) => exists(obs.file)

\* C5: save_to_cache merges against the whole persisted series: every date in
\* the file before a successful call is in the file afterwards, with the row
\* of new_rows when new_rows has that date and the old row otherwise.
C5_SaveKeepsEveryOldDate ==
    (SaveReturned("True") /\ pre.st = "ok") =>
       \A i \in DOMAIN pre.rows :
          \E j \in DOMAIN cache.rows :
             /\ cache.rows[j].date = pre.rows[i].date
             /\ IF pre.rows[i].date \in Dates(data)
                THEN \E k \in DOMAIN data : cache.rows[j] = to_csv(data)[k]
                ELSE cache.rows[j] = pre.rows[i]

----------------------------------------------------------------------------
(* Properties of crawler.py's cache store (SpecCrawler) *)

\* C6: when the existing cache file cannot be deserialized, save_to_cache
\* does not raise: it treats the cache as absent and the persisted series
\* after the call is exactly new_rows.
C6_CorruptCacheOverwritten ==
    (pc = "done" /\ op = "save" /\ pre = Corrupt) =>
       ret # "raised" /\ cache = File(to_csv(data))

----------------------------------------------------------------------------
(* Properties of get_etf_data (C7 on crawler.py under SpecCrawler, the
   others on data_fix.py under SpecGet) *)

GetEnded == pc = "done" /\ op = "get"
HasRows(df) == ~df.none /\ ~empty(df)

\* C7: the dates of consecutive rows of every series returned by
\* load_from_cache or by get_etf_data are strictly increasing.
C7_ReturnedDatesIncrease ==
    /\ StrictlyIncreasing(get.cached.rows)
    /\ GetEnded => StrictlyIncreasing(get.df.rows)

\* C8: when the cache loads non-empty with its newest date within one day of
\* today, get_etf_data returns the cached series unchanged and calls no
\* provider; a provider is called only when the cache is absent, empty or
\* more than one day old.
C8_FreshCacheNoProvider ==
    (op = "get" /\ HasRows(get.cached)
       /\ Today - MaxDate(get.cached.rows) <= 1) =>
          /\ get.calls = <<>>
          /\ GetEnded => get.df = get.cached

\* C9: when get_etf_data succeeds through a provider it merges the provider
\* rows into the cache and returns the full merged series: all cached rows
\* plus the new rows.
C9_ReturnsMergedSeries ==
    (GetEnded /\ get.resolved /\ ret = "True") =>
       /\ to_csv(get.df.rows) = cache.rows
       /\ Dates(get.cached.rows) \subseteq Dates(get.df.rows)

\* C10: with a stale cache the providers are asked for since = newest cached
\* date + 1 day, with no lower bound when the cache is absent or empty, and no
\* row dated before since is merged into the cache or returned as new data by
\* any provider branch.
C10_NothingBeforeSince ==
    (op = "get") =>
       /\ get.since = (IF HasRows(get.cached)
                       THEN MaxDate(get.cached.rows) + 1 ELSE NoDate)
       /\ (get.resolved /\ get.since # NoDate) =>
             /\ \A i \in DOMAIN get.df.rows : get.df.rows[i].date >= get.since
             /\ \A i \in DOMAIN data : data[i].date >= get.since

----------------------------------------------------------------------------
(* Properties of the provider chain *)

\* the providers of crawler.py's get_etf_data in the order of its code
CrawlerChain == <<"crawl_akshare", "crawl_baostock", "crawl_sina_finance">>

\* C11: the providers are consulted in the fixed order AkShare, Baostock,
\* Sina; a later provider is called only after every earlier one was called
\* and failed in the same get; once a provider yields a non-empty result no
\* later provider is called and that result is what get_etf_data returns
\* (a write that fails half-way on the disk is left out of the statement).
C11_ProviderOrderAndResult ==
    (op = "get") =>
       /\ Len(get.calls) <= Len(CrawlerChain)
       /\ \A i \in DOMAIN get.calls : get.calls[i] = CrawlerChain[i]
       /\ (GetEnded /\ get.resolved /\ cache # Partial) => get.df = Frame(data)

\* the order part of C11 alone
CrawlerChainOrder ==
    (op = "get") =>
       /\ Len(get.calls) <= Len(CrawlerChain)
       /\ \A i \in DOMAIN get.calls : get.calls[i] = CrawlerChain[i]
       /\ (GetEnded /\ get.resolved) => data # <<>>

\* data_fix.py's chain: fund_etf_hist_em, fund_etf_hist_sina when that was
\* empty, then baostock, then sina; the frame of the provider that answered
\* is the one returned
DataFixChain == <<"fund_etf_hist_em", "fund_etf_hist_sina", "baostock", "sina">>
Rank(name) == CHOOSE i \in DOMAIN DataFixChain : DataFixChain[i] = name
DataFixChainOrderAndResult ==
    (op = "get") =>
       /\ \A i \in DOMAIN get.calls :
             /\ i = 1 => get.calls[i] = "fund_etf_hist_em"
             /\ i > 1 => Rank(get.calls[i]) > Rank(get.calls[i - 1])
             /\ Rank(get.calls[i]) >= 3 => i > 1 /\ Rank(get.calls[i - 1]) >= Rank(get.calls[i]) - 2
       /\ (GetEnded /\ get.resolved) => get.df = Frame(data)

\* C12: a provider result that fails the completeness validation (here: fewer
\* than min_records rows) is never returned by get_etf_data and never handed
\* to the cache; the chain goes on to the next provider instead.
C12_InvalidResultNeverUsed ==
    (op = "get" /\ get.resolved) =>
       /\ check_data_completeness(data, MinRecords)
       /\ check_data_completeness(get.df.rows, MinRecords)
       /\ cache.st = "ok" /\ cache # pre => cache.rows # to_csv(data)

----------------------------------------------------------------------------
(* Properties of the values (data_fix.py check_data_completeness, SpecChecked) *)

\* C14: every price and volume value of every row that get_etf_data returns
\* or save_to_cache is given is the value received for that same date; a
\* value that is missing at the source is not filled in or copied from
\* another date.
C14_NoFabricatedValue ==
    (op = "check" /\ pc = "done") =>
       /\ Len(data) = Len(get.df.rows)
       /\ \A i \in DOMAIN data : data[i] = get.df.rows[i]

----------------------------------------------------------------------------
(* Properties of the batch run (data_fix.py crawl_etf_data, SpecBatch) *)

BatchFresh(f) ==
    LET cached_data == load_from_cache(f, "daily", CacheDays)
    IN HasRows(cached_data) /\ Today - MaxDate(cached_data.rows) <= 1
InList(c) == \E i \in DOMAIN batch.etf_list : batch.etf_list[i] = c
Returned == batch.result \in {"success", "partial_success"}

\* C13: when every provider fails for a symbol of a batch run, the symbol is
\* recorded as failed, the run goes on with the other symbols and
\* crawl_etf_data returns a result instead of raising.
C13_BatchSurvivesFailedSymbol ==
    (batch.ended /\ \E c \in batch.down : InList(c) /\ ~BatchFresh(batch.files[c])) =>
       /\ Returned
       /\ batch.failed_count >= 1
       /\ batch.success_count + batch.failed_count + batch.skipped_count
             = Len(batch.etf_list)

FreshSymbolNeverFetched ==
    \A c \in Symbols :
       (InList(c) /\ BatchFresh(batch.files[c])) => c \notin batch.called

\* C16: after a batch run in which every symbol of the list ended up to date
\* (none failed) the file crawl_status.json does not exist; a run in which a
\* symbol failed does not delete it.
C16_StatusFileCleared ==
    (batch.ended /\ batch.etf_list # <<>>) =>
       /\ (\A c \in Symbols : InList(c) => BatchFresh(batch.files[c]))
             => ~batch.status_file
       /\ batch.failed_count >= 1 => batch.status_file = batch.status_before

NoCountResult ==
    (batch.ended /\ batch.etf_list # <<>>) => ~Returned

----------------------------------------------------------------------------
(* Properties of the pool (scoring.py generate_stock_pool, SpecPool) *)

Typed(t) == {i \in DOMAIN pool.final_pool : pool.final_pool[i].type = t}

\* C17: every pool that generate_stock_pool produces holds exactly K entries
\* typed stable and exactly K entries typed aggressive, whatever the score
\* records are.
C17_PoolHasKOfEachType ==
    (pool.ended /\ pool.result = "pool") =>
       /\ Cardinality(Typed("stable")) = K
       /\ Cardinality(Typed("aggressive")) = K

Selected == pool.ended /\ pool.scores_df # <<>>
Members(rows) == {rows[i] : i \in DOMAIN rows}

\* C18: whenever the stable-eligible or the aggressive-eligible records are
\* fewer than K (1 to 4 of them, not only none) the bucket is filled from the
\* fallback list, so no bucket is empty or short.
C18_ShortBucketFilledFromFallback ==
    Selected =>
       /\ Len(pool.stable_etfs) < K =>
             pool.stable_from = "fallback" /\ Len(pool.selected_stable) = K
       /\ Len(pool.aggressive_etfs) < K =>
             pool.aggressive_from = "fallback" /\ Len(pool.selected_aggressive) = K

\* C19 as stated: a score record is stable-eligible exactly when its risk
\* score is >= 75 (75 itself is stable-eligible), aggressive-eligible
\* otherwise.
C19_StableFromThresholdUp ==
    Selected =>
       \A r \in Members(pool.scores_df) :
          /\ r \in Members(pool.stable_etfs) <=> r.risk_score >= 75
          /\ r \in Members(pool.aggressive_etfs) <=> ~(r.risk_score >= 75)

\* C19 amended: a score record is stable-eligible exactly when its risk
\* score is above 75; a record whose risk score is 75 or less, 75 itself
\* included, is aggressive-eligible.
C19_StableAboveThreshold ==
    Selected =>
       \A r \in Members(pool.scores_df) :
          /\ r \in Members(pool.stable_etfs) <=> r.risk_score > 75
          /\ r \in Members(pool.aggressive_etfs) <=> ~(r.risk_score > 75)

\* a record on the threshold has been bucketed, next to one above it
C19_ThresholdRecordBucketed ==
    /\ Selected
    /\ \E r \in Members(pool.aggressive_etfs) : r.risk_score = 75
    /\ \E r \in Members(pool.stable_etfs) : r.risk_score = 76

Better(a, b, tie) ==
    \/ a.total_score > b.total_score
    \/ a.total_score = b.total_score /\ a[tie] > b[tie]

\* the bucket is K of the eligible records (all of them when fewer) and no
\* record left out is better than one taken
TopK(selected, eligible, tie) ==
    /\ Members(selected) \subseteq Members(eligible)
    /\ Len(selected) = (IF Len(eligible) < K THEN Len(eligible) ELSE K)
    /\ \A a \in Members(eligible) \ Members(selected) :
          \A b \in Members(selected) : ~Better(a, b, tie)

\* C20: a bucket is the top K records of its eligible set by total score
\* descending; among equal totals the stable bucket prefers the higher risk
\* score and the aggressive bucket the higher return score, so the selection
\* does not depend on the order of the records.
C20_TopKWithTieBreak ==
    Selected =>
       /\ pool.stable_from = "scores" =>
             TopK(pool.selected_stable, pool.stable_etfs, "risk_score")
       /\ pool.aggressive_from = "scores" =>
             TopK(pool.selected_aggressive, pool.aggressive_etfs, "return_score")

\* what the selection does give: the top K by total score alone
TopKByTotalOnly ==
    Selected =>
       /\ pool.stable_from = "scores" =>
             TopK(pool.selected_stable, pool.stable_etfs, "total_score")
       /\ pool.aggressive_from = "scores" =>
             TopK(pool.selected_aggressive, pool.aggressive_etfs, "total_score")

\* C21: generating a pool never changes a snapshot written before: every
\* snapshot a run wrote still exists with the content it was written with,
\* and every run that wrote one added a file, two runs of one day included.
C21_SnapshotsNeverChange ==
    /\ \A i \in DOMAIN pool.written : pool.written[i] \in pool.snapshots
    /\ Cardinality(pool.snapshots) = Len(pool.written)

\* snapshots of earlier days are never changed
EarlierDaysSnapshotsKept ==
    \A i \in DOMAIN pool.written :
       pool.written[i].day < pool.today => pool.written[i] \in pool.snapshots

----------------------------------------------------------------------------
(* Properties of the scores (scoring.py, SpecScore) *)

SubScores == {"liquidity_score", "risk_score", "return_score",
              "premium_score", "sentiment_score"}

\* C22: each of the five sub-scores and the weighted total that
\* calculate_ETF_score returns lies in [0, 100], whatever the series, the
\* premium rate and the component weights are.
C22_ScoresWithinBounds ==
    score.ended =>
       /\ \A k \in SubScores : 0 <= score.result[k] /\ score.result[k] <= 1000
       /\ 0 <= score.result.total_score /\ score.result.total_score <= 1000

\* a score was computed from a premium rate whose bonus would pass 100
C22_BonusAtTheCap ==
    /\ score.ended
    /\ score.input.premium.nav /\ score.input.premium.rate = 5
    /\ score.result.premium_score = 1000

\* C23: a sub-score whose data is missing (too few bars for risk or return,
\* no price or NAV for premium, no component weights for sentiment) is the
\* neutral default 60.
C23_MissingDataGivesSixty ==
    score.ended =>
       /\ (score.input.bars - 1 < 30 => score.result.risk_score = 600)
       /\ (score.input.bars < 252 => score.result.return_score = 600)
       /\ (~(score.input.premium.price /\ score.input.premium.nav)
              => score.result.premium_score = 600)
       /\ (~score.input.weights.some => score.result.sentiment_score = 600)

\* of the four defaults only the one of the sentiment score is 60
SentimentDefaultIsSixty ==
    (score.ended /\ ~score.input.weights.some)
       => score.result.sentiment_score = 600

PremiumRateUsed ==
    IF score.input.premium.price /\ score.input.premium.nav
    THEN score.input.premium.rate ELSE 0
PremiumBonus ==
    IF 5 <= PremiumRateUsed /\ PremiumRateUsed <= 15 THEN 100
    ELSE IF -10 <= PremiumRateUsed /\ PremiumRateUsed < 0 THEN 50
    ELSE 0

----------------------------------------------------------------------------
(* Properties of akshare_retry (SpecRetry) *)

RetryDone == retry.pc = "done"
FailedUpTo(n) == \A i \in 1..n : ~retry.func[i].ok

\* what holds of the attempts at every point of the loop
RetryWithinThree ==
    /\ retry.invocations <= 3
    /\ Len(retry.waits) <= 2
    /\ \A i \in 1..Len(retry.waits) : retry.waits[i] = pow2(i - 1)
    /\ (RetryDone /\ retry.returned # <<>>) =>
          /\ retry.raised = <<>>
          /\ retry.func[retry.invocations].ok
          /\ retry.returned = <<retry.func[retry.invocations].v>>
          /\ FailedUpTo(retry.invocations - 1)
          /\ Len(retry.waits) = retry.invocations - 1
    /\ (RetryDone /\ retry.returned = <<>>) =>
          /\ retry.invocations = 3
          /\ FailedUpTo(3)
          /\ retry.raised = <<retry.func[3].v>>
          /\ retry.waits = <<1, 2>>

----------------------------------------------------------------------------
(* Properties of a get_etf_data call whose sources all fail *)

\* the last source was asked and none gave a frame
AllSourcesFailed ==
    /\ ~get.resolved
    /\ get.calls # <<>>
    /\ get.calls[Len(get.calls)] \in {"sina", "crawl_sina_finance"}
    /\ (pc = "done" /\ op = "get") \/ get.returned

\* a step of a get_etf_data call in which no source has given a frame yet:
\* the entry of the call or the failure of a source
UnresolvedGetStep == op' = "get" /\ ~get'.resolved

----------------------------------------------------------------------------
(* Properties of the buckets of a written pool (SpecBuckets) *)

TypedCodes(t) == {pool.final_pool[i].code :
                     i \in {j \in DOMAIN pool.final_pool : pool.final_pool[j].type = t}}

\* C28: in a written pool every row carries one of the two types, and no
\* symbol is typed stable in one row and aggressive in another.
C28_BucketsDisjoint ==
    pool.result = "pool" =>
       /\ \A i \in DOMAIN pool.final_pool :
             pool.final_pool[i].type \in {"stable", "aggressive"}
       /\ TypedCodes("stable") \cap TypedCodes("aggressive") = {}

\* a pool was written in which one symbol was picked for both buckets
C28_PickedForBoth ==
    /\ pool.result = "pool"
    /\ Index(pool.selected_stable) \cap Index(pool.selected_aggressive) # {}

----------------------------------------------------------------------------
(* Properties of the arbitrage holding (main.py, SpecArbitrage) *)

CronRan == arbitrage.last \in {"cron_crawl_intraday", "cron_arbitrage_scan"}

\* C30: a cron run that finds a holding recorded leaves it as it is or
\* clears it; it never records another opportunity over it.
C30_HoldingNeverOverwritten ==
    (CronRan /\ arbitrage.before # <<>>) =>
       \/ arbitrage.status = arbitrage.before
       \/ arbitrage.status = <<>>

\* the part of C30 that is about cron_crawl_intraday alone
IntradayRunKeepsOrClears ==
    (arbitrage.last = "cron_crawl_intraday" /\ arbitrage.before # <<>>) =>
       \/ arbitrage.status = arbitrage.before
       \/ arbitrage.status = <<>>

\* data_fix.py's save_to_cache on an unreadable file: never raises, and on
\* success the file is new_rows.
DataFixOverwritesCorruptCache ==
    (pc = "done" /\ op = "save" /\ pre = Corrupt /\ data # <<>>) =>
       /\ ret \in {"True", "False"}
       /\ ret = "True" => cache = File(to_csv(data))

====
